---- MODULE Spec2Model ----
(***************************************************************************)
(* A model of the upload pipeline of memenow-storage-service:              *)
(*   api/upload.rs        upload_routes (POST /upload, body-length limit)   *)
(*   domain/services.rs   handle_upload, extract_and_save_file,             *)
(*                        generate_file_key, sanitize_filename              *)
(*   infrastructure/s3.rs, ipfs.rs   the two backend puts                   *)
(*   error.rs             StorageError                                      *)
(*                                                                         *)
(* Every upload is one asynchronous task.  pc[u] is the await point the    *)
(* task is suspended at; one action is the code that runs when that await  *)
(* completes, up to the next await or to the return.  The results of the   *)
(* environment (the multipart stream, the file system, the two backends)   *)
(* are drawn with \E.                                                      *)
(***************************************************************************)
EXTENDS Integers, Sequences, FiniteSets, TLC

\* ------------------------------------------------------------------ bounds

\* config.upload.max_file_size, scaled down (bytes).
MaxFileSize == 3
\* A multipart stream yields at most this many parts.
MaxParts == 2
\* A file part yields at most this many chunks, each of 0..MaxChunkLen bytes.
MaxChunks == 3
MaxChunkLen == 2
\* Upload tasks the model holds.
NumUploads == 2
\* When several uploads run at once, each body has at most PairMaxParts
\* parts and each file part at most PairMaxChunks chunks.
PairMaxParts == 1
PairMaxChunks == 2
\* A filename handed to sanitize_filename alone has at most this many
\* characters.
MaxNameLen == 2

Uploads == 1..NumUploads

\* --------------------------------------------------------------- constants

\* config.s3.key_prefix and config.s3.bucket (Config::default).
KeyPrefix == "uploads"
Bucket == "default-bucket"
\* config.upload.temp_dir (Config::default).
TempDir == "/tmp"

\* The characters sanitize_filename lets through: 'a'..='z' | 'A'..='Z' |
\* '0'..='9' | '.' | '-' | '_'.
SafeChars ==
    {"a","b","c","d","e","f","g","h","i","j","k","l","m",
     "n","o","p","q","r","s","t","u","v","w","x","y","z",
     "A","B","C","D","E","F","G","H","I","J","K","L","M",
     "N","O","P","Q","R","S","T","U","V","W","X","Y","Z",
     "0","1","2","3","4","5","6","7","8","9",
     ".","-","_"}

\* A sanitizer that drops the characters outside SafeChars.
sanitize_drop(f) == SelectSeq(f, LAMBDA c : c \in SafeChars)

\* sanitize_filename: every character outside SafeChars becomes '_'.
sanitize_filename(f) ==
    [i \in 1..Len(f) |-> IF f[i] \in SafeChars THEN f[i] ELSE "_"]

\* Characters of the filenames sanitize_filename is applied to on its own:
\* some of each class it lets through, a separator, a space, a control
\* character and a symbol.
NameChars == {"a", "Z", "7", ".", "-", "_", "/", " ", "\t", "@"}
NameInputs == UNION {[1..n -> NameChars] : n \in 0..MaxNameLen}

\* Filenames a client declares on a file part: a plain one and one that
\* climbs out of the directory.
FileNames == { <<"a", ".", "t">>, <<".", ".", "/", "x">> }

\* A collected Part, as far as the code reads it: name() and filename()
\* (an Option, written as a set of at most one element).  A part of another
\* name may carry a filename too.
PartSet ==
    {[name |-> "other", filename |-> {}],
     [name |-> "other", filename |-> {<<"a", ".", "t">>}],
     [name |-> "file", filename |-> {}]}
    \cup {[name |-> "file", filename |-> {n}] : n \in FileNames}

\* What form.try_collect() can yield: the parts of the body, in order.
FormSet == UNION {[1..n -> PartSet] : n \in 0..MaxParts}

\* The variants of StorageError the pipeline constructs.
StorageError == {"MultipartError", "NoFileError", "IoError", "UploadError"}

VARIABLES
    pc,         \* [Uploads -> await point]
    viaRoute,   \* [Uploads -> BOOLEAN]: called through upload_routes
    parts,      \* [Uploads -> Option FormSet]: `parts`, {} before try_collect gave it
    filename,   \* [Uploads -> Option filename]: `filename` of the file part
    tmpUuid,    \* [Uploads -> Nat]: the Uuid of temp_filename, 0 before it
    chunksIn,   \* [Uploads -> Seq(Nat)]: lengths of the chunks part.data() gave
    total,      \* [Uploads -> Nat]: total_size
    cur,        \* [Uploads -> Nat]: `bytes` of the chunk being written
    fileKey,    \* [Uploads -> key]: file_key, <<>> before generate_file_key
    s3,         \* [Uploads -> state of s3_future]
    ipfs,       \* [Uploads -> state of the spawn_blocking task of ipfs_future]
    rmFault,    \* [Uploads -> BOOLEAN]: a remove_file of this upload failed
    result,     \* [Uploads -> what handle_upload returned]
    httpStatus, \* [Uploads -> status of the HTTP reply, 0 while there is none]
    disk,       \* [path -> content]: the files under temp_dir
    nextUuid,   \* the next value Uuid::new_v4() gives
    failedFirst, \* [Uploads -> "s3" | "ipfs" | ""]: the put that failed first
    puts,       \* [Uploads -> [s3, ipfs -> Nat]]: puts a request has started
    stored,     \* [Uploads -> SUBSET {"s3", "ipfs"}]: backends holding its object
    sanIn,      \* the argument of a call of sanitize_filename
    sanOut      \* what that call returned

vars == <<pc, viaRoute, parts, filename, tmpUuid, chunksIn, total, cur,
          fileKey, s3, ipfs, rmFault, result, httpStatus, disk, nextUuid,
          failedFirst, puts, stored, sanIn, sanOut>>

\* The awaits of handle_upload and extract_and_save_file.
AwaitPoints ==
    {"collect", "create", "read", "rmOver", "write", "flush", "join", "remove"}

NoResult ==
    [kind |-> "none", error |-> "", cause |-> "",
     s3_url |-> <<>>, ipfs_hash |-> {}, filename |-> {}, size |-> 0,
     source |-> ""]

ErrResult(e, why) == [NoResult EXCEPT !.kind = "err", !.error = e, !.cause = why]

\* A transient path made of the filename alone.
TempPathNoUuid(id, name) == <<TempDir, 0, name>>

\* PathBuf::from(temp_dir).join(format!("{}_{}", uuid, filename)).
TempPath(id, name) == <<TempDir, id, name>>

\* The filename the extractor took from the file part.
Name(u) == CHOOSE n \in filename[u] : TRUE

Path(u) == TempPath(tmpUuid[u], Name(u))

FileExists(u) == tmpUuid[u] # 0 /\ Path(u) \in DOMAIN disk

Init ==
    /\ pc = [u \in Uploads |-> "idle"]
    /\ viaRoute = [u \in Uploads |-> FALSE]
    /\ parts = [u \in Uploads |-> {}]
    /\ filename = [u \in Uploads |-> {}]
    /\ tmpUuid = [u \in Uploads |-> 0]
    /\ chunksIn = [u \in Uploads |-> <<>>]
    /\ total = [u \in Uploads |-> 0]
    /\ cur = [u \in Uploads |-> 0]
    /\ fileKey = [u \in Uploads |-> <<>>]
    /\ s3 = [u \in Uploads |-> "idle"]
    /\ ipfs = [u \in Uploads |-> "idle"]
    /\ rmFault = [u \in Uploads |-> FALSE]
    /\ result = [u \in Uploads |-> NoResult]
    /\ httpStatus = [u \in Uploads |-> 0]
    /\ disk = <<>>
    /\ nextUuid = 1
    /\ failedFirst = [u \in Uploads |-> ""]
    /\ puts = [u \in Uploads |-> [s3 |-> 0, ipfs |-> 0]]
    /\ stored = [u \in Uploads |-> {}]
    /\ sanIn = <<>>
    /\ sanOut = <<>>

\* --------------------------------------------------------------- the route

\* The reply warp gives for what handle_upload returned: Ok(reply::json(..))
\* is 200; a rejection made by warp::reject::custom is answered 500, because
\* neither upload_routes nor main installs a recover filter.
HttpStatus(res) == IF res.kind = "ok" THEN 200 ELSE 500

\* handle_upload returns `res`; through the route, warp turns it into a reply.
Return(u, res) ==
    /\ pc' = [pc EXCEPT ![u] = "returned"]
    /\ result' = [result EXCEPT ![u] = res]
    /\ httpStatus' = [httpStatus EXCEPT ![u] =
                         IF viaRoute[u] THEN HttpStatus(res) ELSE 0]

\* multipart::form().max_length(max_file_size): a request whose
\* Content-Length is above the limit is rejected (413 Payload Too Large)
\* before handle_upload is called.
RouteTooLarge(u) ==
    /\ pc[u] = "idle"
    /\ pc' = [pc EXCEPT ![u] = "rejected"]
    /\ httpStatus' = [httpStatus EXCEPT ![u] = 413]
    /\ UNCHANGED <<sanIn, sanOut, failedFirst, puts, stored>>
    /\ UNCHANGED <<viaRoute, parts, filename, tmpUuid, chunksIn, total, cur,
                   fileKey, s3, ipfs, rmFault, result, disk, nextUuid>>

\* handle_upload is entered and awaits form.try_collect(): through the route
\* (the body is then at most max_file_size bytes long), or called as the
\* public function it is, with any FormData.
Invoke(u) ==
    /\ pc[u] = "idle"
    /\ \E via \in BOOLEAN : viaRoute' = [viaRoute EXCEPT ![u] = via]
    /\ pc' = [pc EXCEPT ![u] = "collect"]
    /\ UNCHANGED <<sanIn, sanOut, failedFirst, puts, stored>>
    /\ UNCHANGED <<parts, filename, tmpUuid, chunksIn, total, cur, fileKey,
                   s3, ipfs, rmFault, result, httpStatus, disk, nextUuid>>

\* ----------------------------------------------------- extract_and_save_file

\* A loop that looks at the first part only (mutant of FirstFile).
FirstPartOnly(f) == IF Len(f) > 0 /\ f[1].name = "file" THEN 1 ELSE 0


\* A loop that takes the last part named "file".
LastFile(f) ==
    IF \E i \in 1..Len(f) : f[i].name = "file"
    THEN CHOOSE i \in 1..Len(f) :
             /\ f[i].name = "file"
             /\ \A j \in (i + 1)..Len(f) : f[j].name # "file"
    ELSE 0

\* The index of the first part the loop `for mut part in parts` stops at
\* (part.name() == "file"), 0 when there is none.
FirstFile(f) ==
    IF \E i \in 1..Len(f) : f[i].name = "file"
    THEN CHOOSE i \in 1..Len(f) :
             /\ f[i].name = "file"
             /\ \A j \in 1..(i - 1) : f[j].name # "file"
    ELSE 0

\* part.filename().ok_or(StorageError::NoFileError): whether the part the
\* loop stopped at passes.
HasFilename(p) == p.filename # {}

\* try_collect completes.  On an error the call fails with MultipartError.
\* Otherwise the loop runs over the parts up to the first one named "file":
\* none, or one without a filename, is NoFileError; else the temporary path
\* is made from a fresh Uuid and File::create is awaited.
Collect(u) ==
    /\ pc[u] = "collect"
    /\ \/ /\ Return(u, ErrResult("MultipartError", "collect"))
          /\ UNCHANGED <<parts, filename, tmpUuid, nextUuid>>
       \/ \E f \in FormSet :
             /\ parts' = [parts EXCEPT ![u] = {f}]
             /\ LET k == FirstFile(f) IN
                IF k = 0 \/ ~HasFilename(f[k])
                THEN /\ Return(u, ErrResult("NoFileError", "nofile"))
                     /\ UNCHANGED <<filename, tmpUuid, nextUuid>>
                ELSE /\ filename' = [filename EXCEPT ![u] = f[k].filename]
                     /\ tmpUuid' = [tmpUuid EXCEPT ![u] = nextUuid]
                     /\ nextUuid' = nextUuid + 1
                     /\ pc' = [pc EXCEPT ![u] = "create"]
                     /\ UNCHANGED <<result, httpStatus>>
    /\ UNCHANGED <<sanIn, sanOut, failedFirst, puts, stored>>
    /\ UNCHANGED <<viaRoute, chunksIn, total, cur, fileKey, s3, ipfs,
                   rmFault, disk>>

\* A writer that generates the storage key when it creates the file.
CreateFileEarlyKey(u) ==
    /\ pc[u] = "create"
    /\ \/ /\ disk' = (Path(u) :> <<>>) @@ disk
          /\ pc' = [pc EXCEPT ![u] = "read"]
          /\ fileKey' = [fileKey EXCEPT ![u] = <<KeyPrefix, "/", nextUuid>>]
          /\ nextUuid' = nextUuid + 1
          /\ UNCHANGED <<result, httpStatus>>
       \/ /\ Return(u, ErrResult("IoError", "create"))
          /\ UNCHANGED <<disk, fileKey, nextUuid>>
    /\ UNCHANGED <<sanIn, sanOut, failedFirst, puts, stored>>
    /\ UNCHANGED <<viaRoute, parts, filename, tmpUuid, chunksIn, total, cur,
                   s3, ipfs, rmFault>>

\* File::create(&filepath) completes: the empty file exists, or IoError.
\* The path holds the filename as the client declared it.  With a separator
\* in it the outcome is that of the platform: NotFound where every directory
\* of the path must exist, a file where ".." is resolved on the text of the
\* path.
CreateFile(u) ==
    /\ pc[u] = "create"
    /\ \/ /\ disk' = (Path(u) :> <<>>) @@ disk
          /\ pc' = [pc EXCEPT ![u] = "read"]
          /\ UNCHANGED <<result, httpStatus>>
       \/ /\ Return(u, ErrResult("IoError", "create"))
          /\ UNCHANGED disk
    /\ UNCHANGED <<sanIn, sanOut, failedFirst, puts, stored>>
    /\ UNCHANGED <<viaRoute, parts, filename, tmpUuid, chunksIn, total, cur,
                   fileKey, s3, ipfs, rmFault, nextUuid>>

\* A cap check that lets one byte too many through.
SizeExceededLax(t) == t > MaxFileSize + 1


\* A cap check that refuses a total equal to the cap.
SizeExceededAtCap(t) == t >= MaxFileSize

\* `total_size > config.upload.max_file_size as u64`
SizeExceeded(t) == t > MaxFileSize

\* part.data() completes: the stream has ended (flush is awaited), it gave an
\* error (MultipartError), or it gave a chunk of n bytes: total_size grows
\* by n and, above the limit, remove_file is awaited; otherwise write_all.
\* A body that came through the route holds, framing included, at most
\* max_file_size bytes, so its file part holds fewer.
ReadChunk(u) ==
    /\ pc[u] = "read"
    /\ \/ /\ pc' = [pc EXCEPT ![u] = "flush"]
          /\ UNCHANGED <<chunksIn, total, cur, result, httpStatus>>
       \/ /\ Return(u, ErrResult("MultipartError", "chunk"))
          /\ UNCHANGED <<chunksIn, total, cur>>
       \/ \E n \in 0..MaxChunkLen :
             /\ Len(chunksIn[u]) < MaxChunks
             /\ viaRoute[u] => total[u] + n < MaxFileSize
             /\ chunksIn' = [chunksIn EXCEPT ![u] = Append(@, n)]
             /\ total' = [total EXCEPT ![u] = @ + n]
             /\ cur' = [cur EXCEPT ![u] = n]
             /\ pc' = [pc EXCEPT ![u] =
                          IF SizeExceeded(total[u] + n) THEN "rmOver" ELSE "write"]
             /\ UNCHANGED <<result, httpStatus>>
    /\ UNCHANGED <<sanIn, sanOut, failedFirst, puts, stored>>
    /\ UNCHANGED <<viaRoute, parts, filename, tmpUuid, fileKey, s3, ipfs,
                   rmFault, disk, nextUuid>>

\* tokio::fs::remove_file(path) completes: the file is gone, or the removal
\* failed and the file stays.
RemoveFile(u, ok) ==
    /\ disk' = IF ok THEN [p \in DOMAIN disk \ {Path(u)} |-> disk[p]] ELSE disk
    /\ rmFault' = [rmFault EXCEPT ![u] = @ \/ ~ok]

\* The size branch returning without the remove_file (mutant of RemoveOver).
RemoveOverKeep(u) ==
    /\ pc[u] = "rmOver"
    /\ Return(u, ErrResult("UploadError", "size"))
    /\ UNCHANGED <<sanIn, sanOut, failedFirst, puts, stored>>
    /\ UNCHANGED <<viaRoute, parts, filename, tmpUuid, chunksIn, total, cur,
                   fileKey, s3, ipfs, rmFault, disk, nextUuid>>

\* `let _ = remove_file(&filepath).await; return Err(UploadError(..))`: the
\* removal of the over-long file completes, its result is dropped, and the
\* call fails with UploadError.
RemoveOver(u) ==
    /\ pc[u] = "rmOver"
    /\ \E ok \in BOOLEAN : RemoveFile(u, ok)
    /\ Return(u, ErrResult("UploadError", "size"))
    /\ UNCHANGED <<sanIn, sanOut, failedFirst, puts, stored>>
    /\ UNCHANGED <<viaRoute, parts, filename, tmpUuid, chunksIn, total, cur,
                   fileKey, s3, ipfs, nextUuid>>

\* A writer that puts every chunk in front of the ones before it.
WriteChunkPrepend(u) ==
    /\ pc[u] = "write"
    /\ \/ /\ disk' = [disk EXCEPT ![Path(u)] = <<cur[u]>> \o @]
          /\ pc' = [pc EXCEPT ![u] = "read"]
          /\ UNCHANGED <<result, httpStatus>>
       \/ \E k \in 0..(cur[u] - 1) :
             /\ disk' = IF k = 0 THEN disk
                        ELSE [disk EXCEPT ![Path(u)] = <<k>> \o @]
             /\ Return(u, ErrResult("IoError", "write"))
    /\ UNCHANGED <<sanIn, sanOut, failedFirst, puts, stored>>
    /\ UNCHANGED <<viaRoute, parts, filename, tmpUuid, chunksIn, total, cur,
                   fileKey, s3, ipfs, rmFault, nextUuid>>

\* file.write_all(bytes) completes: the chunk is appended, or IoError after
\* k < n of its bytes were appended (write_all of no bytes does no I/O and
\* cannot fail).
WriteChunk(u) ==
    /\ pc[u] = "write"
    /\ \/ /\ disk' = [disk EXCEPT ![Path(u)] = Append(@, cur[u])]
          /\ pc' = [pc EXCEPT ![u] = "read"]
          /\ UNCHANGED <<result, httpStatus>>
       \/ \E k \in 0..(cur[u] - 1) :
             /\ disk' = IF k = 0 THEN disk
                        ELSE [disk EXCEPT ![Path(u)] = Append(@, k)]
             /\ Return(u, ErrResult("IoError", "write"))
    /\ UNCHANGED <<sanIn, sanOut, failedFirst, puts, stored>>
    /\ UNCHANGED <<viaRoute, parts, filename, tmpUuid, chunksIn, total, cur,
                   fileKey, s3, ipfs, rmFault, nextUuid>>

\* A key without the generated id.
generate_file_key_noid(name, prefix, id) ==
    <<prefix, "/", 0, "_", sanitize_filename(name)>>

\* format!("{}/{}_{}", prefix, uuid, sanitize_filename(filename))
generate_file_key(name, prefix, id) ==
    <<prefix, "/", id, "_", sanitize_filename(name)>>

\* flush succeeded: file_data = Some(..), the loop breaks, the function
\* returns Ok, and handle_upload goes on to the key and the two futures.
FlushDone(u) ==
    /\ fileKey' = [fileKey EXCEPT ![u] =
           generate_file_key(Name(u), KeyPrefix, nextUuid)]
    /\ nextUuid' = nextUuid + 1
    /\ s3' = [s3 EXCEPT ![u] = "running"]
    /\ ipfs' = [ipfs EXCEPT ![u] = "running"]
    /\ puts' = [puts EXCEPT ![u] = [s3 |-> @.s3 + 1, ipfs |-> @.ipfs + 1]]
    /\ pc' = [pc EXCEPT ![u] = "join"]
    /\ UNCHANGED <<result, httpStatus>>

\* A writer that takes a file of no bytes for no file (mutant of Flush).
FlushRejectEmpty(u) ==
    /\ pc[u] = "flush"
    /\ \/ IF total[u] = 0
          THEN /\ Return(u, ErrResult("NoFileError", "nofile"))
               /\ UNCHANGED <<fileKey, nextUuid, s3, ipfs, puts>>
          ELSE FlushDone(u)
       \/ /\ Return(u, ErrResult("IoError", "flush"))
          /\ UNCHANGED <<fileKey, nextUuid, s3, ipfs, puts>>
    /\ UNCHANGED <<sanIn, sanOut, failedFirst, stored>>
    /\ UNCHANGED <<viaRoute, parts, filename, tmpUuid, chunksIn, total, cur,
                   rmFault, disk>>

\* file.flush() completes.  On success extract_and_save_file returns
\* (filepath, filename, total_size); handle_upload generates the key, makes
\* the two futures and awaits try_join!, whose first poll starts both puts.
\* On failure the call fails with IoError.
Flush(u) ==
    /\ pc[u] = "flush"
    /\ \/ FlushDone(u)
       \/ /\ Return(u, ErrResult("IoError", "flush"))
          /\ UNCHANGED <<fileKey, nextUuid, s3, ipfs, puts>>
    /\ UNCHANGED <<sanIn, sanOut, failedFirst, stored>>
    /\ UNCHANGED <<viaRoute, parts, filename, tmpUuid, chunksIn, total, cur,
                   rmFault, disk>>

\* ------------------------------------------------------------ handle_upload

\* upload_to_s3 runs inside the task (it is polled by try_join!) and comes to
\* its end: Ok(url) or Err.
S3Finish(u) ==
    /\ pc[u] = "join"
    /\ s3[u] = "running"
    /\ \E r \in {"ok", "err"} :
          /\ s3' = [s3 EXCEPT ![u] = r]
          /\ stored' = [stored EXCEPT ![u] =
                            IF r = "ok" THEN @ \cup {"s3"} ELSE @]
          /\ failedFirst' = [failedFirst EXCEPT ![u] =
                                 IF r = "err" /\ @ = "" THEN "s3" ELSE @]
    /\ UNCHANGED <<sanIn, sanOut, puts>>
    /\ UNCHANGED <<pc, viaRoute, parts, filename, tmpUuid, chunksIn, total,
                   cur, fileKey, ipfs, rmFault, result, httpStatus, disk,
                   nextUuid>>

\* The closure upload_to_ipfs gave to spawn_blocking comes to its end: Ok(hash)
\* or Err.  It runs on the blocking pool, whether or not the task that
\* spawned it still awaits it.
IpfsFinish(u) ==
    /\ ipfs[u] = "running"
    /\ \E r \in {"ok", "err"} :
          /\ ipfs' = [ipfs EXCEPT ![u] = r]
          /\ stored' = [stored EXCEPT ![u] =
                            IF r = "ok" THEN @ \cup {"ipfs"} ELSE @]
          /\ failedFirst' = [failedFirst EXCEPT ![u] =
                                 IF r = "err" /\ @ = "" THEN "ipfs" ELSE @]
    /\ UNCHANGED <<sanIn, sanOut, puts>>
    /\ UNCHANGED <<pc, viaRoute, parts, filename, tmpUuid, chunksIn, total,
                   cur, fileKey, s3, rmFault, result, httpStatus, disk,
                   nextUuid>>

\* A join that is content with one success (mutant of TryJoin).
TryJoinAny(a, b) ==
    IF a = "err" /\ b = "err" THEN "err"
    ELSE IF a \in {"ok", "err"} /\ b \in {"ok", "err"} THEN "ok"
    ELSE "pending"

\* What try_join!(s3_future, ipfs_future) gives when polled: "err" as soon as
\* one of the two has failed, "ok" when both have succeeded, else "pending".
TryJoin(a, b) ==
    IF a = "err" \/ b = "err" THEN "err"
    ELSE IF a = "ok" /\ b = "ok" THEN "ok"
    ELSE "pending"

\* Dropping the futures of try_join!: an s3_future that still runs is
\* cancelled; the blocking IPFS closure is detached and runs on.
DropS3(st) == IF st = "running" THEN "dropped" ELSE st

\* A join that may report either backend, failed or not.
AnyBackend(a, b) == {"s3", "ipfs"}

\* The error try_join! returns with: the Err of the first branch it finds
\* failed when polled.  With one branch failed it is that one; with both
\* failed by the time of the poll it is the one polled first, which the
\* branch order of the tokio release in the build decides.
FirstErr(a, b) ==
    {x \in {"s3", "ipfs"} : (x = "s3" /\ a = "err") \/ (x = "ipfs" /\ b = "err")}



\* A join that removes the transient file as soon as it returns an error.
JoinPollCleanup(u) ==
    /\ pc[u] = "join"
    /\ TryJoin(s3[u], ipfs[u]) # "pending"
    /\ IF TryJoin(s3[u], ipfs[u]) = "err"
       THEN /\ \E x \in FirstErr(s3[u], ipfs[u]) :
                  Return(u, [ErrResult("UploadError", "replication")
                                 EXCEPT !.source = x])
            /\ s3' = [s3 EXCEPT ![u] = DropS3(@)]
            /\ RemoveFile(u, TRUE)
       ELSE /\ pc' = [pc EXCEPT ![u] = "remove"]
            /\ UNCHANGED <<s3, result, httpStatus, disk, rmFault>>
    /\ UNCHANGED <<sanIn, sanOut, failedFirst, puts, stored>>
    /\ UNCHANGED <<viaRoute, parts, filename, tmpUuid, chunksIn, total, cur,
                   fileKey, ipfs, nextUuid>>

\* A join that, on an error, deletes what the other backend has stored.
JoinPollRollback(u) ==
    /\ pc[u] = "join"
    /\ TryJoin(s3[u], ipfs[u]) # "pending"
    /\ IF TryJoin(s3[u], ipfs[u]) = "err"
       THEN /\ \E x \in FirstErr(s3[u], ipfs[u]) :
                  Return(u, [ErrResult("UploadError", "replication")
                                 EXCEPT !.source = x])
            /\ s3' = [s3 EXCEPT ![u] = DropS3(@)]
            /\ stored' = [stored EXCEPT ![u] = {}]
       ELSE /\ pc' = [pc EXCEPT ![u] = "remove"]
            /\ UNCHANGED <<s3, result, httpStatus, stored>>
    /\ UNCHANGED <<sanIn, sanOut, failedFirst, puts>>
    /\ UNCHANGED <<viaRoute, parts, filename, tmpUuid, chunksIn, total, cur,
                   fileKey, ipfs, rmFault, disk, nextUuid>>

\* try_join! is polled and is ready.  With an error, `?` returns
\* UploadError(e.to_string()) at once, the text being that of the backend
\* error (result.source), and the other future is dropped; with
\* both results, remove_file is awaited.
JoinPoll(u) ==
    /\ pc[u] = "join"
    /\ TryJoin(s3[u], ipfs[u]) # "pending"
    /\ IF TryJoin(s3[u], ipfs[u]) = "err"
       THEN /\ \E x \in FirstErr(s3[u], ipfs[u]) :
                  Return(u, [ErrResult("UploadError", "replication")
                                 EXCEPT !.source = x])
            /\ s3' = [s3 EXCEPT ![u] = DropS3(@)]
       ELSE /\ pc' = [pc EXCEPT ![u] = "remove"]
            /\ UNCHANGED <<s3, result, httpStatus>>
    /\ UNCHANGED <<sanIn, sanOut, failedFirst, puts, stored>>
    /\ UNCHANGED <<viaRoute, parts, filename, tmpUuid, chunksIn, total, cur,
                   fileKey, ipfs, rmFault, disk, nextUuid>>

\* A response that reports the length of the last chunk.
UploadResponseLastChunk(u) ==
    [kind |-> "ok", error |-> "", cause |-> "",
     s3_url |-> <<Bucket, fileKey[u]>>,
     ipfs_hash |-> {disk[Path(u)]},
     filename |-> filename[u],
     size |-> cur[u],
     source |-> ""]

\* UploadResponse { s3_url, ipfs_hash, filename, size: file_size }
\* s3_url is format!("https://{}.s3.amazonaws.com/{}", bucket, key); the hash
\* IPFS gives is a function of the content it was given.
UploadResponse(u) ==
    [kind |-> "ok", error |-> "", cause |-> "",
     s3_url |-> <<Bucket, fileKey[u]>>,
     ipfs_hash |-> {disk[Path(u)]},
     filename |-> filename[u],
     size |-> total[u],
     source |-> ""]

\* A removal whose failure is returned as the error of the upload.
RemoveTempEscalate(u) ==
    /\ pc[u] = "remove"
    /\ \E ok \in BOOLEAN :
          /\ RemoveFile(u, ok)
          /\ Return(u, IF ok THEN UploadResponse(u)
                             ELSE ErrResult("IoError", "remove"))
    /\ UNCHANGED <<sanIn, sanOut, failedFirst, puts, stored>>
    /\ UNCHANGED <<viaRoute, parts, filename, tmpUuid, chunksIn, total, cur,
                   fileKey, s3, ipfs, nextUuid>>

\* remove_file(&filepath) completes; a failure is logged (warn!) and the
\* response is returned either way.
RemoveTemp(u) ==
    /\ pc[u] = "remove"
    /\ \E ok \in BOOLEAN : RemoveFile(u, ok)
    /\ Return(u, UploadResponse(u))
    /\ UNCHANGED <<sanIn, sanOut, failedFirst, puts, stored>>
    /\ UNCHANGED <<viaRoute, parts, filename, tmpUuid, chunksIn, total, cur,
                   fileKey, s3, ipfs, nextUuid>>

\* The client disconnects: hyper drops the future of handle_upload at the
\* await it is suspended at.  Dropping runs the destructors of its locals (the
\* File is closed, the backend futures are dropped) and nothing else.
Cancel(u) ==
    /\ pc[u] \in AwaitPoints
    /\ pc' = [pc EXCEPT ![u] = "cancelled"]
    /\ s3' = [s3 EXCEPT ![u] = DropS3(@)]
    /\ UNCHANGED <<sanIn, sanOut, failedFirst, puts, stored>>
    /\ UNCHANGED <<viaRoute, parts, filename, tmpUuid, chunksIn, total, cur,
                   fileKey, ipfs, rmFault, result, httpStatus, disk, nextUuid>>

Step(u) ==
    \/ RouteTooLarge(u)
    \/ Invoke(u)
    \/ Collect(u)
    \/ CreateFile(u)
    \/ ReadChunk(u)
    \/ RemoveOver(u)
    \/ WriteChunk(u)
    \/ Flush(u)
    \/ S3Finish(u)
    \/ IpfsFinish(u)
    \/ JoinPoll(u)
    \/ RemoveTemp(u)
    \/ Cancel(u)

\* Spec follows one upload task through the pipeline, from the request to
\* the return or the cancellation; the other tasks of Uploads stay idle.
Next == Step(1)

Spec == Init /\ [][Next]_vars

\* ------------------------------------------------ uploads running at once

\* The requests the concurrent runs draw: handle_upload called directly,
\* short bodies, chunks of full length.
Lean ==
    \A u \in Uploads :
        /\ ~viaRoute[u]
        /\ \A f \in parts[u] : Len(f) <= PairMaxParts
        /\ Len(chunksIn[u]) <= PairMaxChunks
        /\ \A i \in 1..Len(chunksIn[u]) : chunksIn[u][i] = MaxChunkLen

\* warp runs every request as a task of its own on the tokio runtime: the
\* steps of the uploads interleave at their await points.
PairNext == \E u \in Uploads : Step(u) /\ Lean'

SpecPair == Init /\ [][PairNext]_vars

\* ------------------------------------------------- sanitize_filename alone

\* The variables of the upload tasks.
taskVars == <<pc, viaRoute, parts, filename, tmpUuid, chunksIn, total, cur,
              fileKey, s3, ipfs, rmFault, result, httpStatus, disk, nextUuid,
              failedFirst, puts, stored>>

\* One call of sanitize_filename on any filename.
Sanitize ==
    \E f \in NameInputs :
        /\ sanIn' = f
        /\ sanOut' = sanitize_filename(f)
        /\ UNCHANGED taskVars

SpecSanitize == Init /\ [][Sanitize]_vars

\* ------------------------------------------------------------------ claims

\* The parts try_collect gave upload u hold no part named "file".
NoFilePart(u) ==
    \E f \in parts[u] : \A i \in 1..Len(f) : f[i].name # "file"

\* The first part named "file" among the parts of upload u is part k.
FirstFileAt(u, k) ==
    \E f \in parts[u] :
        /\ k \in 1..Len(f)
        /\ f[k].name = "file"
        /\ \A j \in 1..(k - 1) : f[j].name # "file"

\* C1: when handle_upload has returned, with a response or with any error,
\* the transient file the call created is not on disk.
C1_NoTransientFileAfterReturn ==
    \A u \in Uploads : pc[u] = "returned" => ~FileExists(u)

\* C2: when the running total of the chunks received is above max_file_size
\* and the call has returned, then, provided no remove_file failed, the
\* transient file is not on disk and neither backend put was ever started.
C2_OverSizeLeavesNothing ==
    \A u \in Uploads :
        (pc[u] = "returned" /\ total[u] > MaxFileSize /\ ~rmFault[u])
        => /\ ~FileExists(u)
           /\ s3[u] = "idle"
           /\ ipfs[u] = "idle"

C2_Witness ==
    \E u \in Uploads :
        pc[u] = "returned" /\ total[u] > MaxFileSize /\ ~rmFault[u]

\* C3: an upload whose file part is longer than max_file_size fails with the
\* error kind SizeLimitExceeded, not with the UploadError of the replication
\* stage.
C3_SizeLimitExceededKind ==
    \A u \in Uploads :
        (pc[u] = "returned" /\ total[u] > MaxFileSize)
        => result[u].error = "SizeLimitExceeded"

\* C4: a call that has returned gave the response if and only if the S3 put
\* and the IPFS put both succeeded; the response carries both locators and an
\* error carries none.
C4_SuccessIffBoth ==
    \A u \in Uploads :
        pc[u] = "returned"
        => /\ (result[u].kind = "ok") <=> (s3[u] = "ok" /\ ipfs[u] = "ok")
           /\ result[u].kind = "ok"
                  => result[u].s3_url # <<>> /\ result[u].ipfs_hash # {}
           /\ result[u].kind # "ok"
                  => result[u].s3_url = <<>> /\ result[u].ipfs_hash = {}

C4_Witness ==
    \E u \in Uploads :
        /\ pc[u] = "returned"
        /\ \/ s3[u] = "ok" /\ ipfs[u] = "err"
           \/ s3[u] = "err" /\ ipfs[u] = "ok"

\* C5: when handle_upload returns the error of a failed replication, both
\* backend puts have come to their end: none still runs, none was dropped.
C5_JoinAwaitsBoth ==
    \A u \in Uploads :
        (pc[u] = "returned" /\ result[u].cause = "replication")
        => s3[u] \in {"ok", "err"} /\ ipfs[u] \in {"ok", "err"}

\* C6: once the task of an upload was cancelled (the client went away), its
\* transient file is not on disk.
C6_CancelRemovesFile ==
    \A u \in Uploads : pc[u] = "cancelled" => ~FileExists(u)

\* C7: the reply to a request without a file part, and the reply to a request
\* whose file part is above the size limit, has a status of the 400 class.
C7_ClientErrorsAre4xx ==
    \A u \in Uploads :
        (/\ httpStatus[u] # 0
         /\ \/ pc[u] = "rejected"
            \/ total[u] > MaxFileSize
            \/ pc[u] = "returned" /\ NoFilePart(u))
        => httpStatus[u] \in 400..499

\* C8: when the parts hold none named "file", the call has failed with
\* NoFileError, no transient path or file was made and no backend put was
\* started; when a part named "file" with a filename comes after parts of
\* other names, it is the one the extractor takes and there is no
\* NoFileError.
C8_NoFilePart ==
    \A u \in Uploads :
        /\ NoFilePart(u)
           => /\ pc[u] = "returned"
              /\ result[u].error = "NoFileError"
              /\ tmpUuid[u] = 0
              /\ ~FileExists(u)
              /\ s3[u] = "idle"
              /\ ipfs[u] = "idle"
        /\ \A f \in parts[u] : \A k \in 1..Len(f) :
              (FirstFileAt(u, k) /\ f[k].filename # {})
              => /\ filename[u] = f[k].filename
                 /\ tmpUuid[u] # 0
                 /\ result[u].error # "NoFileError"

C8_Witness ==
    \E u \in Uploads :
        /\ NoFilePart(u)
        /\ \E f \in parts[u] : Len(f) > 0 /\ f[1].filename # {}
        /\ pc[u] = "returned"

\* C9: when the first part named "file" has no filename, the call does not
\* fail with NoFileError.
C9_FilenameFallback ==
    \A u \in Uploads :
        \A f \in parts[u] : \A k \in 1..Len(f) :
            (FirstFileAt(u, k) /\ f[k].filename = {})
            => result[u].error # "NoFileError"

\* C10: a file part with a filename that gave no chunk is not a missing
\* file: the call never fails with NoFileError or for the size, and when the
\* extractor has returned the byte count is 0, the empty transient file is on
\* disk and both backend puts were started; a response gives size 0.
C10_EmptyFile ==
    \A u \in Uploads :
        (tmpUuid[u] # 0 /\ chunksIn[u] = <<>>)
        => /\ result[u].cause \notin {"nofile", "size"}
           /\ pc[u] \in {"join", "remove"}
                  => /\ total[u] = 0
                     /\ FileExists(u)
                     /\ disk[Path(u)] = <<>>
                     /\ s3[u] # "idle"
                     /\ ipfs[u] # "idle"
           /\ result[u].kind = "ok" => result[u].size = 0

C10_Witness ==
    \E u \in Uploads :
        tmpUuid[u] # 0 /\ chunksIn[u] = <<>> /\ pc[u] = "join"

\* ---------------------------------------------------------------- C11

\* The characters of [A-Za-z0-9._-], class by class.
C11_Lower == {"a","b","c","d","e","f","g","h","i","j","k","l","m",
              "n","o","p","q","r","s","t","u","v","w","x","y","z"}
C11_Upper == {"A","B","C","D","E","F","G","H","I","J","K","L","M",
              "N","O","P","Q","R","S","T","U","V","W","X","Y","Z"}
C11_Digit == {"0","1","2","3","4","5","6","7","8","9"}
C11_Allowed == C11_Lower \cup C11_Upper \cup C11_Digit \cup {".", "-", "_"}

C12_KeyShapeAndUnique ==
    /\ \A u \in Uploads :
          fileKey[u] # <<>> =>
              /\ Len(fileKey[u]) = 5
              /\ fileKey[u][1] = KeyPrefix
              /\ fileKey[u][2] = "/"
              /\ fileKey[u][3] \in 1..(nextUuid - 1)
              /\ fileKey[u][4] = "_"
              /\ fileKey[u][5] = sanitize_filename(Name(u))
    /\ \A u, v \in Uploads :
          (u # v /\ fileKey[u] # <<>> /\ fileKey[v] # <<>>) =>
              fileKey[u] # fileKey[v]

\* Two uploads that declared the same filename both hold a key.
C12_Witness ==
    \E u, v \in Uploads :
        /\ u # v
        /\ fileKey[u] # <<>> /\ fileKey[v] # <<>>
        /\ filename[u] = filename[v]

\* ---------------------------------------------------------------- C13

\* The bytes of a sequence of chunks.
RECURSIVE SumLen(_)
SumLen(cs) == IF cs = <<>> THEN 0 ELSE Head(cs) + SumLen(Tail(cs))

\* C13: the size of a success response is the number of bytes of the chunks
\* written to the transient file, and its filename is the one declared on the
\* file part.
C13_SizeIsBytesWritten ==
    \A u \in Uploads :
        /\ pc[u] = "remove" =>
              FileExists(u) /\ total[u] = SumLen(disk[Path(u)])
        /\ (pc[u] = "returned" /\ result[u].kind = "ok") =>
              /\ result[u].size = SumLen(chunksIn[u])
              /\ FileExists(u) => result[u].size = SumLen(disk[Path(u)])
              /\ \E f \in parts[u], k \in 1..MaxParts :
                    FirstFileAt(u, k) /\ result[u].filename = f[k].filename

\* A success response for a file that arrived in two chunks or more.
C13_Witness ==
    \E u \in Uploads :
        /\ pc[u] = "returned" /\ result[u].kind = "ok"
        /\ Len(chunksIn[u]) >= 2
        /\ result[u].size = MaxFileSize

\* ---------------------------------------------------------------- C14

\* C14: when remove_file fails the upload returns what it would have returned
\* otherwise: the success response after both puts succeeded, the size error
\* after the cap was passed; the failed removal is never the error returned.
C14_RemovalFailureNotEscalated ==
    \A u \in Uploads :
        rmFault[u] =>
            /\ pc[u] = "returned"
            /\ (s3[u] = "ok" /\ ipfs[u] = "ok") =>
                  /\ result[u].kind = "ok"
                  /\ result[u].size = total[u]
                  /\ result[u].filename = filename[u]
            /\ SizeExceeded(total[u]) =>
                  result[u] = ErrResult("UploadError", "size")
            /\ (s3[u] = "ok" /\ ipfs[u] = "ok") \/ SizeExceeded(total[u])

\* One upload returned its response and another its size error, each after a
\* removal that failed.
C14_Witness ==
    \E u, v \in Uploads :
        /\ rmFault[u] /\ result[u].kind = "ok"
        /\ rmFault[v] /\ result[v] = ErrResult("UploadError", "size")

\* ---------------------------------------------------------------- C15

\* C15: no transient file ever holds more than max_file_size bytes; the chunk
\* that takes the running total above the cap is not written; the byte count
\* extract_and_save_file returns is at most max_file_size.
C15_WrittenWithinCap ==
    /\ \A p \in DOMAIN disk : SumLen(disk[p]) <= MaxFileSize
    /\ \A u \in Uploads :
          /\ pc[u] = "write" => total[u] <= MaxFileSize
          /\ (pc[u] = "rmOver" /\ FileExists(u)) =>
                /\ total[u] > MaxFileSize
                /\ SumLen(disk[Path(u)]) = total[u] - cur[u]
          /\ pc[u] \in {"join", "remove"} => total[u] <= MaxFileSize
          /\ result[u].kind = "ok" => result[u].size <= MaxFileSize

\* The file holds exactly max_file_size bytes and one more chunk has arrived.
C15_Witness ==
    \E u \in Uploads :
        /\ pc[u] = "rmOver" /\ FileExists(u)
        /\ SumLen(disk[Path(u)]) = MaxFileSize
        /\ cur[u] > 0

\* ---------------------------------------------------------------- C16

\* The state of the upload lifecycle a task is in.  KeyGenerated lasts from
\* the return of extract_and_save_file to the first poll of try_join!, with no
\* await between: the step that ends Writing passes it and enters Replicating.
C16_Phase(p, res) ==
    CASE p = "idle" -> "Idle"
      [] p = "rejected" -> "Rejected"
      [] p = "collect" -> "Extracting"
      [] p \in {"create", "read", "write", "rmOver", "flush"} -> "Writing"
      [] p \in {"join", "remove"} -> "Replicating"
      [] p = "cancelled" -> "Cancelled"
      [] p = "returned" /\ res.kind = "ok" -> "Succeeded"
      [] p = "returned" /\ res.kind # "ok" -> "Failed"

\* The transitions of the lifecycle.
C16_PhaseOrder ==
    {<<"Idle", "Extracting">>, <<"Idle", "Rejected">>,
     <<"Extracting", "Writing">>, <<"Extracting", "Failed">>,
     <<"Writing", "Replicating">>, <<"Writing", "Failed">>,
     <<"Replicating", "Succeeded">>, <<"Replicating", "Failed">>,
     <<"Extracting", "Cancelled">>, <<"Writing", "Cancelled">>,
     <<"Replicating", "Cancelled">>}

\* One step, seen from upload u.
C16_StepInOrder(u) ==
    LET from == C16_Phase(pc[u], result[u])
        to == C16_Phase(pc[u], result[u])'
    IN  /\ from # to => <<from, to>> \in C16_PhaseOrder
        /\ from \in {"Succeeded", "Failed"} =>
              pc'[u] = pc[u] /\ result'[u] = result[u]
        \* the key: after the flush, before either put starts
        /\ fileKey'[u] # fileKey[u] =>
              /\ pc[u] = "flush" /\ pc'[u] = "join"
              /\ fileKey[u] = <<>>
              /\ disk[Path(u)] = chunksIn[u]
              /\ s3[u] = "idle" /\ ipfs[u] = "idle"
        /\ (s3'[u] # "idle" \/ ipfs'[u] # "idle") => fileKey'[u] # <<>>
        /\ to = "Replicating" => fileKey'[u] # <<>>
        \* the size cap: from Writing to Failed, no key, no put
        /\ (from # to /\ SizeExceeded(total[u])) =>
              /\ from = "Writing" /\ to \in {"Failed", "Cancelled"}
              /\ fileKey'[u] = <<>>
              /\ s3'[u] = "idle" /\ ipfs'[u] = "idle"

\* C16: an upload goes through Extracting, Writing, KeyGenerated and
\* Replicating in this order and ends Succeeded or Failed, entering no state
\* twice and leaving neither end state; its key is generated after the write
\* has completed and before either put starts; past the size cap it goes from
\* Writing to Failed with no key and no put.
C16_StateOrder == [][\A u \in Uploads : C16_StepInOrder(u)]_vars

\* An upload has gone from Writing to Failed on the size cap.
C16_Witness ==
    \E u \in Uploads :
        /\ C16_Phase(pc[u], result[u]) = "Failed"
        /\ SizeExceeded(total[u])
        /\ fileKey[u] = <<>> /\ s3[u] = "idle" /\ ipfs[u] = "idle"

\* ---------------------------------------------------------------- C17

\* All but the last element of a sequence.
C17_Front(s) == SubSeq(s, 1, Len(s) - 1)

\* C17: while the writer waits for a chunk the file holds the chunks received
\* so far, in arrival order; while a chunk is being written or refused it
\* holds all the chunks before it; once the byte count has been returned,
\* after the flush, it holds every chunk received, none skipped, duplicated or
\* out of place.
C17_ContentIsChunksInOrder ==
    \A u \in Uploads :
        /\ (pc[u] \in {"read", "flush"} /\ FileExists(u)) =>
              disk[Path(u)] = chunksIn[u]
        /\ (pc[u] \in {"write", "rmOver"} /\ FileExists(u)) =>
              /\ chunksIn[u] # <<>>
              /\ cur[u] = chunksIn[u][Len(chunksIn[u])]
              /\ disk[Path(u)] = C17_Front(chunksIn[u])
        /\ pc[u] \in {"join", "remove"} =>
              /\ FileExists(u)
              /\ disk[Path(u)] = chunksIn[u]
              /\ total[u] = SumLen(chunksIn[u])
        /\ (result[u].kind = "ok" /\ FileExists(u)) =>
              disk[Path(u)] = chunksIn[u]

\* The writer has returned after two chunks of different lengths.
C17_Witness ==
    \E u \in Uploads :
        /\ pc[u] = "join"
        /\ Len(chunksIn[u]) = 2
        /\ chunksIn[u][1] # chunksIn[u][2]
        /\ chunksIn[u][1] > 0 /\ chunksIn[u][2] > 0

\* ---------------------------------------------------------------- C18

\* C18, as stated: the error of a failed replication is the failure of the
\* backend whose put failed first.
C18_FirstFailedIsReturned ==
    \A u \in Uploads :
        (pc[u] = "returned" /\ result[u].cause = "replication") =>
            result[u].source = failedFirst[u]

\* C18, amended: the error of a failed replication is the failure of a
\* backend that had failed when try_join! was polled; it is the failure of
\* the other backend than the first to fail only when both had failed by then.
C18_ReturnedIsAFailure ==
    \A u \in Uploads :
        (pc[u] = "returned" /\ result[u].cause = "replication") =>
            /\ result[u].error = "UploadError"
            /\ result[u].source \in {"s3", "ipfs"}
            /\ result[u].source = "s3" => s3[u] = "err"
            /\ result[u].source = "ipfs" => ipfs[u] = "err"
            /\ result[u].source # failedFirst[u] =>
                  s3[u] = "err" /\ ipfs[u] = "err"

\* Both puts failed, IPFS first, and the S3 failure was returned.
C18_Witness ==
    \E u \in Uploads :
        /\ pc[u] = "returned" /\ result[u].cause = "replication"
        /\ failedFirst[u] = "ipfs"
        /\ result[u].source = "s3"

\* ---------------------------------------------------------------- C19

\* C19: a failed replication is returned with the error kind of the backend
\* whose failure it is: ObjectStoreError (StorageError::S3Error) for the S3
\* put, ContentStoreError (StorageError::IpfsError) for the IPFS put; the
\* generic UploadError only when the failure belongs to neither.
C19_BackendSpecificKind ==
    \A u \in Uploads :
        (pc[u] = "returned" /\ result[u].cause = "replication") =>
            /\ result[u].source = "s3" =>
                  result[u].error \in {"S3Error", "ObjectStoreError"}
            /\ result[u].source = "ipfs" =>
                  result[u].error \in {"IpfsError", "ContentStoreError"}
            /\ result[u].error = "UploadError" =>
                  result[u].source \notin {"s3", "ipfs"}

\* ---------------------------------------------------------------- C20

\* The uploads that have chosen path p as their transient path.
C20_Owners(p) == {u \in Uploads : tmpUuid[u] # 0 /\ Path(u) = p}

\* C20: uploads that run at once, with the same filename or not, have
\* different transient paths; every file under temp_dir is the file of one
\* upload and holds nothing but chunks that upload received.
C20_PathsNeverShared ==
    /\ \A u, v \in Uploads :
          (u # v /\ tmpUuid[u] # 0 /\ tmpUuid[v] # 0) => Path(u) # Path(v)
    /\ \A p \in DOMAIN disk :
          /\ Cardinality(C20_Owners(p)) = 1
          /\ \A u \in C20_Owners(p) :
                /\ Len(disk[p]) <= Len(chunksIn[u])
                /\ \A i \in 1..Len(disk[p]) : disk[p][i] <= chunksIn[u][i]

\* Two uploads that declared the same filename are writing their files at the
\* same time.
C20_Witness ==
    \E u, v \in Uploads :
        /\ u # v
        /\ filename[u] = filename[v]
        /\ pc[u] \in {"read", "write"} /\ pc[v] \in {"read", "write"}
        /\ FileExists(u) /\ FileExists(v)
        /\ disk[Path(u)] # <<>> /\ disk[Path(v)] # <<>>

\* ---------------------------------------------------------------- C21

\* One step, seen from upload u: no put is started a second time and nothing
\* a backend has stored is taken away.
C21_StepKeeps(u) ==
    /\ puts'[u].s3 <= 1 /\ puts'[u].ipfs <= 1
    /\ puts'[u].s3 >= puts[u].s3 /\ puts'[u].ipfs >= puts[u].ipfs
    /\ (s3[u] \in {"ok", "err", "dropped"} => puts'[u].s3 = puts[u].s3)
    /\ (ipfs[u] \in {"ok", "err"} => puts'[u].ipfs = puts[u].ipfs)
    /\ stored[u] \subseteq stored'[u]
    /\ ("s3" \in stored'[u]) = (s3'[u] = "ok")
    /\ ("ipfs" \in stored'[u]) = (ipfs'[u] = "ok")

\* C21: a request starts the put of each backend at most once, also after a
\* failure, and an object one backend has stored stays stored when the other
\* backend fails.
C21_NoRetryNoRollback == [][\A u \in Uploads : C21_StepKeeps(u)]_vars

\* The request failed on the S3 put and the IPFS object is stored.
C21_Witness ==
    \E u \in Uploads :
        /\ pc[u] = "returned" /\ result[u].cause = "replication"
        /\ s3[u] = "err"
        /\ stored[u] = {"ipfs"}
        /\ puts[u] = [s3 |-> 1, ipfs |-> 1]

\* ---------------------------------------------------------------- C22

\* The transient files made for upload u: those named with its Uuid.
C22_FilesOf(u) == {p \in DOMAIN disk : tmpUuid[u] # 0 /\ p[2] = tmpUuid[u]}

\* C22: a request has at most one transient file at any time, every file
\* under temp_dir is the file of a request, and the file of a request is that
\* of the first part named "file" of its body, whatever parts follow.
C22_AtMostOneTransientFile ==
    /\ \A u \in Uploads :
          /\ Cardinality(C22_FilesOf(u)) <= 1
          /\ \A p \in C22_FilesOf(u) : p = Path(u)
          /\ FileExists(u) =>
                \E f \in parts[u], k \in 1..MaxParts :
                    FirstFileAt(u, k) /\ f[k].filename = filename[u]
    /\ DOMAIN disk \subseteq UNION {C22_FilesOf(u) : u \in Uploads}

\* The body held two parts named "file" with different filenames, and the
\* writer has finished.
C22_Witness ==
    \E u \in Uploads :
        /\ pc[u] = "join" /\ FileExists(u) /\ total[u] > 0
        /\ \E f \in parts[u] :
              /\ Len(f) = 2
              /\ f[1].name = "file" /\ f[2].name = "file"
              /\ f[1].filename # f[2].filename /\ f[2].filename # {}

\* ---------------------------------------------------------------- C23

\* The file name of TempPath(id, name) as one string: the Uuid, '_' and the
\* declared filename.  A direct child of temp_dir is a path whose file name
\* holds no separator.
C23_DirectChild(p) ==
    /\ Len(p) = 3
    /\ p[1] = TempDir
    /\ \A i \in 1..Len(p[3]) : p[3][i] # "/"

\* C23: whatever filename the client declares, the transient path the writer
\* makes, creates and removes is a direct child of temp_dir.
C23_TransientPathInTempDir ==
    /\ \A u \in Uploads : tmpUuid[u] # 0 => C23_DirectChild(Path(u))
    /\ \A p \in DOMAIN disk : C23_DirectChild(p)

\* ---------------------------------------------------------------- C24

\* C24: the cap is inclusive.  A running total up to and equal to
\* max_file_size is never refused; the stream is refused at the first chunk
\* that takes the total above max_file_size, and at no later one, however the
\* bytes are split into chunks.
C24_CapInclusive ==
    \A u \in Uploads :
        /\ total[u] = SumLen(chunksIn[u])
        /\ total[u] <= MaxFileSize =>
              /\ pc[u] # "rmOver"
              /\ result[u].cause # "size"
        /\ total[u] > MaxFileSize =>
              /\ pc[u] \in {"rmOver", "returned", "cancelled"}
              /\ pc[u] = "returned" => result[u].cause = "size"
              /\ total[u] - chunksIn[u][Len(chunksIn[u])] <= MaxFileSize

\* extract_and_save_file has returned a byte count equal to max_file_size for
\* a file that came in two chunks or more.
C24_Witness ==
    \E u \in Uploads :
        /\ pc[u] = "join"
        /\ total[u] = MaxFileSize
        /\ Len(chunksIn[u]) >= 2

\* ---------------------------------------------------------------- C25

\* The step removes, or tries to remove, the transient file of upload u.
C25_Removes(u) ==
    \/ FileExists(u) /\ ~FileExists(u)'
    \/ rmFault'[u] # rmFault[u]

\* One step, seen from upload u: a removal finds no put running, and where
\* the puts were started it finds both finished.
C25_StepAfterPuts(u) ==
    C25_Removes(u) =>
        /\ s3[u] # "running" /\ ipfs[u] # "running"
        /\ (puts[u].s3 > 0 \/ puts[u].ipfs > 0) =>
              s3[u] \in {"ok", "err"} /\ ipfs[u] \in {"ok", "err"}

\* C25: the transient file is not removed while a put that reads it runs;
\* in every interleaving, also when one put fails while the other still
\* reads, a removal comes only after both puts have finished.
C25_RemovalAfterBothPuts == [][\A u \in Uploads : C25_StepAfterPuts(u)]_vars

\* Both puts ran and finished, and the file has been removed.
C25_Witness ==
    \E u \in Uploads :
        /\ pc[u] = "returned" /\ tmpUuid[u] # 0 /\ ~FileExists(u)
        /\ puts[u] = [s3 |-> 1, ipfs |-> 1]
        /\ s3[u] = "ok" /\ ipfs[u] = "ok"

====
